---- MODULE Spec2Model ----
(***************************************************************************)
(* Issuance (OID4VCI) and presentation (OID4VP) handlers of credibil/vc as *)
(* state machines over the StateStore.  Every handler is an async function *)
(* that suspends at each StateStore call, so a handler that touches the    *)
(* store more than once is modelled as one action per store round trip,    *)
(* with the handler's position kept in an invocation slot.                 *)
(***************************************************************************)
EXTENDS Integers, Sequences, FiniteSets, TLC

(***************************************************************************)
(* Bounds of the model                                                     *)
(***************************************************************************)
\* number of state keys the verifier may generate (generate::uri_token)
MaxVKey == 1
\* concurrent invocations of one handler
MaxSlot == 2
\* last instant of the clock, in minutes
MaxNow == 15
\* minutes that pass in one step of the clock
TickLen == 15
\* presentations in one vp_token
MaxVps == 1
\* number of state keys the issuer may generate (codes, tokens, transaction ids)
MaxIKey == 4
\* number of offers the issuer may create
MaxOffer == 1

(***************************************************************************)
(* Program constants                                                       *)
(***************************************************************************)
\* Expire::Request.duration(), minutes
ExpireRequest == 5
\* Error::IssuancePending(5), the retry interval in seconds
PendingInterval == 5
\* Expire::Authorized.duration(), minutes
ExpireAuthorized == 10
\* lifetime of an access token, minutes
ExpireAccess == 15

VKeys == 1..MaxVKey
Slots == 1..MaxSlot
\* callers of the verifier endpoints; "vx" has no verifier metadata
Verifiers == {"v1", "vx"}
Registered == {"v1"}

VARIABLES
    now,        \* chrono::Utc::now()
    vstore,     \* the verifier's StateStore: key -> State or NoEntry
    vnext,      \* number of uri tokens generated so far
    ro,         \* the invocation of request_object
    fetched,    \* uri tokens for which request_object has returned the JWS
    rs,         \* invocations of response
    responded   \* state keys for which a response has returned successfully

vvars == <<vstore, vnext, ro, fetched, rs, responded>>

IKeys == 1..MaxIKey
Subjects == {"normal_user", "pending_user"}

VARIABLES
    istore,     \* the issuer's StateStore: key -> State or NoEntry
    inext,      \* number of codes, tokens and transaction ids generated so far
    noffer,     \* number of offers created so far
    pending,    \* Subject: the pending flag of each subject's dataset
    uris,       \* offers handed out by reference: uri token -> CredentialOffer
    co,         \* invocations of credential_offer
    cofetch,    \* per key, how far the fetches of credential_offer have got
    df,         \* invocations of deferred
    remarked,   \* (subject, key) for the keys issued before the subject's
                \* dataset was set pending again
    redeemed,   \* transaction ids for which deferred has returned the credential
    last_offer, \* the request and the answer of the last create_offer
    nt,         \* the invocation of notification
    notified,   \* the last invocation of notification that returned success
    rg          \* the invocation of register

ivars == <<istore, inext, noffer, pending, uris, co, cofetch, df, remarked,
           redeemed, last_offer, nt, notified, rg>>

VARIABLES
    sl,         \* the call of status::bitstring
    fm,         \* the call of Constraints::satisfied
    pr,         \* the call of SdJwtVpBuilder::build
    er          \* the call of Error::to_json and Error::to_querystring

lvars == <<sl, fm, pr, er>>

NoEntry == [stage |-> "None"]

\* an Option is the set of its values: None is {}, Some(x) is {x}
None == {}
Some(x) == {x}
IsSome(o) == o # {}
Unwrap(o) == CHOOSE x \in o : TRUE

(***************************************************************************)
(* StateStore, as implemented by the test provider: a map that ignores the *)
(* expiry passed to put.                                                   *)
(***************************************************************************)
IdleSlot == [pc |-> "idle"]

\* an invocation takes the first free slot
FirstFree(slots, i) == slots[i].pc = "idle" /\ \A j \in 1..(i - 1) : slots[j].pc # "idle"

StorePutDrops(store, key, state) == store

StorePut(store, key, state) ==
    IF key \in DOMAIN store THEN [store EXCEPT ![key] = state] ELSE store

\* a put that returns an error has not inserted the entry
StorePutFailedAfterWrite(store, key, state) == StorePut(store, key, state)

StorePutFailed(store, key, state) == store

StoreGet(store, key) == IF key \in DOMAIN store THEN store[key] ELSE NoEntry

StorePurge(store, key) ==
    IF key \in DOMAIN store THEN [store EXCEPT ![key] = NoEntry] ELSE store

(***************************************************************************)
(* oid4vp: create_request                                                  *)
(***************************************************************************)
\* the request object built for a device flow
RequestObject(verifier, token, flow, query) ==
    [ response_type |-> "vp_token",
      state         |-> token,
      nonce         |-> token,
      query         |-> query,
      response_mode |-> IF flow = "CrossDevice" THEN "direct_post" ELSE "fragment",
      client_id     |-> IF flow = "CrossDevice" THEN <<verifier, "post">>
                                                  ELSE <<verifier, "callback">> ]

create_request(verifier, flow, query) ==
    /\ vnext < MaxVKey
    /\ IF verifier \notin Registered
       THEN UNCHANGED <<vstore, vnext>>
       ELSE LET uri_token == vnext + 1
                state == [ stage          |-> "Request",
                           expires_at     |-> now + ExpireRequest,
                           request_object |->
                               RequestObject(verifier, uri_token, flow, query) ]
            IN /\ vnext' = uri_token
               /\ vstore' = StorePut(vstore, uri_token, state)
    /\ UNCHANGED <<ivars, lvars>>
    /\ UNCHANGED <<now, ro, fetched, rs, responded>>

(***************************************************************************)
(* oid4vp: request_object                                                  *)
(***************************************************************************)

\* request_object touches the store once (get) and never writes to it
RequestObjectStoreAfterPurging(store, id) == StorePurge(store, id)

RequestObjectStoreAfter(store, id) == store

RequestObjectResultInvalid(state, verifier, signed) ==
    IF state = NoEntry THEN "invalid_request"
    ELSE IF state.request_object.client_id # <<verifier, "post">>
         THEN "invalid_request"
    ELSE IF ~signed THEN "server_error"
    ELSE "ok"

RequestObjectResultAnyClient(state, verifier, signed) ==
    IF state = NoEntry THEN "server_error"
    ELSE IF ~signed THEN "server_error"
    ELSE "ok"

\* the outcome of request_object for the state it read
RequestObjectResult(state, verifier, signed) ==
    IF state = NoEntry THEN "server_error"
    ELSE IF state.request_object.client_id # <<verifier, "post">>
         THEN "invalid_request"
    ELSE IF ~signed THEN "server_error"
    ELSE "ok"

\* the compact JWS JwsBuilder builds and encodes, and the payload a decoder
\* gets out of it
JwsEncode(typ, payload) == [typ |-> typ, payload |-> payload]
JwsPayload(jws) == jws.payload

\* RequestObject::default(), as far as the model has its members
RequestObjectDefault ==
    [ response_type |-> "vp_token", state |-> 0, nonce |-> 0, query |-> "",
      response_mode |-> "fragment", client_id |-> <<"", "">> ]

RequestObjectJwsOfDefault(state) == JwsEncode("oauth-authz-req+jwt", RequestObjectDefault)

\* the JWS request_object answers with: the request object of the state read
RequestObjectJws(state) == JwsEncode("oauth-authz-req+jwt", state.request_object)

request_object(verifier, id, signed) ==
    /\ ro.pc = "idle"
    /\ LET state == StoreGet(vstore, id)
           res == RequestObjectResult(state, verifier, signed)
       IN /\ ro' = [ pc     |-> "done",
                     id     |-> id,
                     res    |-> res,
                     jws    |-> IF res = "ok" THEN Some(RequestObjectJws(state))
                                              ELSE None,
                     again  |-> id \in fetched,
                     purged |-> id \in responded ]
          /\ vstore' = RequestObjectStoreAfter(vstore, id)
    /\ UNCHANGED <<ivars, lvars>>
    /\ UNCHANGED <<now, vnext, fetched, rs, responded>>

\* the caller has received the answer of request_object
request_object_return ==
    /\ ro.pc = "done"
    /\ ro' = IdleSlot
    /\ fetched' = IF ro.res = "ok" THEN fetched \cup {ro.id} ELSE fetched
    /\ UNCHANGED <<ivars, lvars>>
    /\ UNCHANGED <<now, vstore, vnext, rs, responded>>

(***************************************************************************)
(* oid4vp: response and verify                                             *)
(***************************************************************************)

\* what w3c_vc::proof::verify(Verify::Vp) makes of one entry of the vp_token:
\* a JWT is decoded and its signature checked, an object must carry one proof
VpKindsOk == {"Jwt", "Object"}
VpKindsErr == {"JwtInvalid", "ObjectNoProof"}
Nonces == 0..MaxVKey
\* the aud claim of a presentation sent as a JWT
Audiences == {<<"v1", "post">>, <<"vx", "post">>}
\* Payload::Vp of a presentation: nonce and client_id; the client_id of a
\* presentation sent as an object is String::new()
VpInputs ==
    {[kind |-> "Jwt", nonce |-> n, client_id |-> a] : n \in Nonces, a \in Audiences}
        \cup {[kind |-> "Object", nonce |-> n, client_id |-> <<"", "">>] : n \in Nonces}
        \cup {[kind |-> k, nonce |-> 0, client_id |-> <<"", "">>] : k \in VpKindsErr}

VpTokens == UNION {[1..n -> VpInputs] : n \in 0..MaxVps}

Queries ==
    { [kind |-> "Definition", id |-> "d1", input_descriptors |-> <<"i1">>],
      [kind |-> "DefinitionUri", id |-> "d1", input_descriptors |-> <<>>] }

\* the head of an authorization response: vp_token and presentation_submission
HeadInputs ==
    [ vp_token : {None} \cup {Some(t) : t \in VpTokens},
      presentation_submission : {None, Some("d1"), Some("d2")} ]

\* the nodes that yield a credential: a JWT that decodes under the issuer's
\* key, an object that deserialises and whose issuer proof is good, an object
\* that deserialises and whose issuer proof is missing or forged
NodesOk == {"Jwt", "Object", "ObjectForged"}

\* the check of verify, in the order of the code, at which a response with
\* these findings is turned down; 6 when the credential itself is reached
FailStage(c) ==
    IF ~c.mapping THEN 1
    ELSE IF ~c.format THEN 2
    ELSE IF c.path # "one" THEN 3
    ELSE IF c.node \notin NodesOk THEN 4
    ELSE IF c.constraints # "satisfied" THEN 5
    ELSE 6

\* what the checks of one input descriptor find in the response; what lies
\* behind the check that turns the response down is never looked at and is
\* left at its first value
InputChecks ==
    { c \in
        [ mapping     : BOOLEAN,                    \* descriptor_map has the id
          format      : BOOLEAN,                    \* path_nested.format requested
          path        : {"unparsable", "no_match", "one"},
          node        : NodesOk \cup {"JwtInvalid", "ObjectInvalid", "Other"},
          constraints : {"satisfied", "unsatisfied", "error"},
          valid_from  : {None, Some(MaxNow)},
          valid_until : {None, Some(0), Some(MaxNow)},
          \* credential_status of the credential: absent, or present with the
          \* revocation or suspension bit of its status list entry clear or set
          status      : {"none", "clear", "set"} ] :
        /\ FailStage(c) < 2 => c.format
        /\ FailStage(c) < 3 => c.path = "one"
        /\ FailStage(c) < 4 => c.node = "Jwt"
        /\ FailStage(c) < 5 => c.constraints = "satisfied"
        /\ FailStage(c) < 6 => /\ c.valid_from = None
                               /\ c.valid_until = None
                               /\ c.status = "none" }

\* the findings recorded for a response turned down before any descriptor
NoChecks ==
    [ mapping |-> FALSE, format |-> TRUE, path |-> "one", node |-> "Jwt",
      constraints |-> "satisfied", valid_from |-> None, valid_until |-> None,
      status |-> "none" ]

VerifyVpsAnyNonce(vps, nonce) ==
    IF \E n \in DOMAIN vps : vps[n].kind \in VpKindsErr THEN "server_error" ELSE "ok"

\* the loop over the vp_token: proof verification, then the nonce
RECURSIVE VerifyVps(_, _)
VerifyVps(vps, nonce) ==
    IF vps = <<>> THEN "ok"
    ELSE IF Head(vps).kind \in VpKindsErr THEN "server_error"
    ELSE IF Head(vps).nonce # nonce THEN "invalid_request"
    ELSE VerifyVps(Tail(vps), nonce)

\* verify, up to the comparison of the definition ids
VerifyHead(state_key, state, h) ==
    IF state_key = None THEN "invalid_request"
    ELSE IF state = NoEntry THEN "invalid_request"
    ELSE IF h.vp_token = None THEN "invalid_request"
    ELSE IF VerifyVps(Unwrap(h.vp_token), state.request_object.nonce) # "ok"
         THEN VerifyVps(Unwrap(h.vp_token), state.request_object.nonce)
    ELSE IF h.presentation_submission = None THEN "invalid_request"
    ELSE IF state.request_object.query.kind # "Definition" THEN "invalid_request"
    ELSE IF Unwrap(h.presentation_submission) # state.request_object.query.id
         THEN "invalid_request"
    ELSE "ok"

\* verify, the checks made for one input descriptor
VerifyInput(c, at) ==
    IF ~c.mapping THEN "invalid_request"
    ELSE IF ~c.format THEN "invalid_request"
    ELSE IF c.path = "unparsable" THEN "server_error"
    ELSE IF c.path = "no_match" THEN "invalid_request"
    ELSE IF c.node = "JwtInvalid" THEN "panic"
    ELSE IF c.node = "ObjectInvalid" THEN "server_error"
    ELSE IF c.node = "Other" THEN "invalid_request"
    ELSE IF c.constraints = "error" THEN "server_error"
    ELSE IF c.constraints = "unsatisfied" THEN "invalid_request"
    ELSE IF \E exp \in c.valid_until : exp < at THEN "invalid_request"
    ELSE "ok"

\* the number of presentations in the vp_token of a response
Presented(h) == IF h.vp_token = None THEN 0 ELSE Len(Unwrap(h.vp_token))

\* some presentation of the response carries a nonce other than the nonce of
\* the request object in the state
NonceMismatch(state, h) ==
    /\ state # NoEntry
    /\ \E vps \in h.vp_token : \E n \in DOMAIN vps :
           vps[n].nonce # state.request_object.nonce

\* some presentation of the response is made out to an audience other than
\* the client_id of the request object in the state
AudienceMismatch(state, h) ==
    /\ state # NoEntry
    /\ \E vps \in h.vp_token : \E n \in DOMAIN vps :
           vps[n].client_id # state.request_object.client_id

\* response after verify has answered: an error is returned at once (the `?`),
\* otherwise the handler goes on to purge the state
AfterVerify(i, state_key, state, h, c, res) ==
    /\ rs' = [rs EXCEPT ![i] =
                 [ pc        |-> IF res = "ok" THEN "purge" ELSE "done",
                   state     |-> state_key,
                   found     |-> state # NoEntry,
                   late      |-> state_key \cap responded # {},
                   presented |-> Presented(h),
                   mismatch  |-> NonceMismatch(state, h),
                   audience  |-> ~AudienceMismatch(state, h),
                   early     |-> \E nbf \in c.valid_from : now < nbf,
                   forged    |-> c.node = "ObjectForged",
                   revoked   |-> c.status = "set",
                   res       |-> res ]]

\* response, first part: verify reads the state and checks the response
verify(i, state_key) ==
    /\ FirstFree(rs, i)
    /\ LET state == IF state_key = None THEN NoEntry
                    ELSE StoreGet(vstore, Unwrap(state_key))
       IN \E h \in HeadInputs :
            LET head == VerifyHead(state_key, state, h)
            IN IF head # "ok"
               THEN AfterVerify(i, state_key, state, h, NoChecks, head)
               ELSE IF state.request_object.query.input_descriptors = <<>>
               THEN AfterVerify(i, state_key, state, h, NoChecks, "ok")
               ELSE \E c \in InputChecks :
                       AfterVerify(i, state_key, state, h, c, VerifyInput(c, now))
    /\ UNCHANGED <<ivars, lvars>>
    /\ UNCHANGED <<now, vstore, vnext, ro, fetched, responded>>

ResponseKeepsState(store, state_key) == store

\* response clears the state once verify has succeeded
ResponsePurge(store, state_key) == StorePurge(store, state_key)

\* response, second part: purge the state and return the redirect
response(i) ==
    /\ rs[i].pc = "purge"
    /\ vstore' = ResponsePurge(vstore, Unwrap(rs[i].state))
    /\ rs' = [rs EXCEPT ![i].pc = "done"]
    /\ responded' = IF rs[i].res = "ok" THEN responded \cup rs[i].state
                                         ELSE responded
    /\ UNCHANGED <<ivars, lvars>>
    /\ UNCHANGED <<now, vnext, ro, fetched>>

\* the caller has received the answer of response
response_return(i) ==
    /\ rs[i].pc = "done"
    /\ rs' = [rs EXCEPT ![i] = IdleSlot]
    /\ UNCHANGED <<ivars, lvars>>
    /\ UNCHANGED <<now, vstore, vnext, ro, fetched, responded>>

(***************************************************************************)
(* oid4vci: State                                                          *)
(***************************************************************************)
\* State::is_expired
is_expired(state, at) == state.expires_at < at

(***************************************************************************)
(* oid4vci: Subject, as provided by DatasetStore                           *)
(***************************************************************************)
Supported == {"EmployeeID_JWT"}
GrantsSupported == {"pre-authorized_code", "authorization_code"}

\* DatasetStore::authorize: the identifiers of the subject's datasets for a
\* credential configuration, an error for an unknown subject
AuthorizeOkAlways(subject_id) == TRUE

AuthorizeOk(subject_id) == subject_id \in Subjects

Authorize(subject_id, config_id) == {config_id}

DatasetKeepsPending(pend, subject_id) == pend

\* DatasetStore::dataset reports the pending flag and clears it
DatasetPending(pend, subject_id) == pend[subject_id]
Dataset(pend, subject_id) == [pend EXCEPT ![subject_id] = FALSE]

\* the issuer's back office marks a subject's dataset as pending again
SubjectSetPending(subject_id) ==
    /\ ~pending[subject_id]
    /\ pending' = [pending EXCEPT ![subject_id] = TRUE]
    /\ remarked' = remarked \cup {<<subject_id, k>> : k \in 1..inext}
    /\ UNCHANGED <<now, istore, inext, noffer, uris, co, cofetch, df>>
    /\ UNCHANGED <<vvars, lvars>>
    /\ UNCHANGED <<redeemed, last_offer, nt, notified, rg>>

(***************************************************************************)
(* oid4vci: create_offer                                                   *)
(***************************************************************************)
CreateOfferRequests ==
    [ credential_configuration_ids :
          {<<>>, <<"EmployeeID_JWT">>, <<"Unsupported">>},
      subject_id       : {None} \cup {Some(u) : u \in Subjects \cup {"nobody"}},
      grant_types      : {None} \cup {Some(g) : g \in SUBSET GrantsSupported},
      tx_code_required : BOOLEAN,
      send_type        : {"ByVal", "ByRef"} ]

\* CreateOfferRequest::verify
CreateOfferVerify(request) ==
    IF request.credential_configuration_ids = <<>> THEN "invalid_request"
    ELSE IF \E n \in DOMAIN request.credential_configuration_ids :
                request.credential_configuration_ids[n] \notin Supported
         THEN "unsupported_credential_type"
    ELSE IF /\ IsSome(request.grant_types)
            /\ \E gt \in Unwrap(request.grant_types) : gt \notin GrantsSupported
         THEN "unsupported_grant_type"
    ELSE IF /\ IsSome(request.grant_types)
            /\ "pre-authorized_code" \in Unwrap(request.grant_types)
            /\ request.subject_id = None
         THEN "invalid_request"
    ELSE "ok"

\* TxCode::length of the offers
TxCodeLength == 6

\* request.grant_types.clone().unwrap_or_default()
GrantTypes(request) ==
    IF IsSome(request.grant_types) THEN Unwrap(request.grant_types) ELSE {}

\* generate::tx_code(): the digits of a transaction code
TxCode == <<1, 2, 3, 4, 5, 6>>

\* the transaction code of an offer
OfferTxCodeAlways(request, grant_types) ==
    IF request.tx_code_required THEN Some(TxCode) ELSE None

OfferTxCode(request, grant_types) ==
    IF request.tx_code_required /\ "pre-authorized_code" \in grant_types
    THEN Some(TxCode) ELSE None

\* the issuer the endpoints are called for
Issuer == "http://credibil.io"

\* an offer that carries a grants object whatever grant types are asked for
CredentialOfferWithGrants(request, auth_code) ==
    [ credential_configuration_ids |-> request.credential_configuration_ids,
      grants |-> Some([ authorization_code  |-> None,
                        pre_authorized_code |-> None ]) ]

\* CreateOfferRequest::create_offer
CredentialOffer(request, auth_code) ==
    LET grant_types == GrantTypes(request)
        pre == IF "pre-authorized_code" \in grant_types
               THEN Some([ pre_authorized_code |-> auth_code,
                           tx_code |-> IF request.tx_code_required
                                       THEN Some([ input_mode |-> "numeric",
                                                   length |-> TxCodeLength ])
                                       ELSE None ])
               ELSE None
        auth == IF "authorization_code" \in grant_types
                THEN Some([issuer_state |-> auth_code])
                ELSE None
    IN [ credential_configuration_ids |-> request.credential_configuration_ids,
         grants |-> IF IsSome(auth) \/ IsSome(pre)
                    THEN Some([authorization_code |-> auth, pre_authorized_code |-> pre])
                    ELSE None ]

\* authorize: Subject::authorize for every requested configuration
AuthorizedDetails(request) ==
    UNION { Authorize(Unwrap(request.subject_id),
                      request.credential_configuration_ids[n]) :
            n \in DOMAIN request.credential_configuration_ids }

\* the outcomes of the two StateStore::put calls of create_offer
PutOutcomes == [offered : BOOLEAN, pending : BOOLEAN]

create_offer(request) ==
    /\ noffer < MaxOffer
    /\ inext + 2 <= MaxIKey
    /\ noffer' = noffer + 1
    /\ \E put_ok \in PutOutcomes :
       LET grant_types == GrantTypes(request)
           pre == "pre-authorized_code" \in grant_types
           saves == pre \/ "authorization_code" \in grant_types
           auth_code == inext + 1
           offer == CredentialOffer(request, auth_code)
           tx_code == OfferTxCode(request, grant_types)
           authorized == request.subject_id # None
                             /\ AuthorizeOk(Unwrap(request.subject_id))
           offered == [ stage      |-> "Offered",
                        expires_at |-> now + ExpireAuthorized,
                        subject_id |-> request.subject_id,
                        details    |-> IF pre THEN Some(AuthorizedDetails(request))
                                              ELSE None,
                        tx_code    |-> tx_code ]
           store1 == IF saves THEN StorePut(istore, auth_code, offered) ELSE istore
           next1 == IF saves THEN auth_code ELSE inext
           uri_token == next1 + 1
           pending_offer == [ stage      |-> "Pending",
                              expires_at |-> now + ExpireAuthorized,
                              subject_id |-> request.subject_id,
                              offer      |-> offer ]
       IN IF CreateOfferVerify(request) # "ok"
          THEN /\ UNCHANGED <<istore, inext, uris>>
               /\ last_offer' = Some([ request  |-> request,
                                       response |-> [res |-> CreateOfferVerify(request)] ])
          ELSE IF pre /\ ~authorized
          THEN /\ UNCHANGED <<istore, inext, uris>>
               /\ last_offer' = Some([ request  |-> request,
                                       response |-> [res |-> "server_error"] ])
          ELSE IF saves /\ ~put_ok.offered
          THEN /\ istore' = StorePutFailed(istore, auth_code, offered)
               /\ inext' = next1
               /\ UNCHANGED uris
               /\ last_offer' = Some([ request  |-> request,
                                       response |-> [res |-> "server_error"] ])
          ELSE IF request.send_type = "ByVal"
          THEN /\ istore' = store1
               /\ inext' = next1
               /\ UNCHANGED uris
               /\ last_offer' = Some([ request  |-> request,
                                       response |->
                                           [ res        |-> "ok",
                                             offer_type |-> [ kind  |-> "Object",
                                                              offer |-> offer ],
                                             tx_code    |-> tx_code ] ])
          ELSE IF ~put_ok.pending
          THEN /\ istore' = StorePutFailed(store1, uri_token, pending_offer)
               /\ inext' = uri_token
               /\ UNCHANGED uris
               /\ last_offer' = Some([ request  |-> request,
                                       response |-> [res |-> "server_error"] ])
          ELSE /\ istore' = StorePut(store1, uri_token, pending_offer)
               /\ inext' = uri_token
               /\ uris' = [uris EXCEPT ![uri_token] = Some(offer)]
               /\ last_offer' = Some([ request  |-> request,
                                       response |->
                                           [ res        |-> "ok",
                                             offer_type |->
                                                 [ kind |-> "Uri",
                                                   uri  |-> <<Issuer, "credential_offer",
                                                              uri_token>> ],
                                             tx_code    |-> tx_code ] ])
    /\ UNCHANGED <<now, pending, co, cofetch, df, remarked>>
    /\ UNCHANGED <<vvars, lvars>>
    /\ UNCHANGED <<redeemed, nt, notified, rg>>

(***************************************************************************)
(* oid4vci: credential_offer                                               *)
(***************************************************************************)
\* credential_offer, first part: get the state
credential_offer_get(i, id) ==
    /\ FirstFree(co, i)
    /\ LET state == StoreGet(istore, id)
       IN co' = [co EXCEPT ![i] =
                    [ pc      |-> IF state = NoEntry THEN "done" ELSE "purge",
                      id      |-> id,
                      state   |-> state,
                      res     |-> IF state = NoEntry THEN "server_error" ELSE "none",
                      expired |-> FALSE,
                      issued  |-> IsSome(uris[id]),
                      first   |-> IsSome(uris[id]) /\ cofetch[id] = "none",
                      late    |-> cofetch[id] = "returned" ]]
    /\ cofetch' = [cofetch EXCEPT ![id] =
                       IF IsSome(uris[id]) /\ @ = "none" THEN "started" ELSE @]
    /\ UNCHANGED <<now, istore, inext, noffer, pending, uris, df, remarked>>
    /\ UNCHANGED <<vvars, lvars>>
    /\ UNCHANGED <<redeemed, last_offer, nt, notified, rg>>

\* what credential_offer answers once the state is purged
CredentialOfferResult(state, at) ==
    IF is_expired(state, at) THEN "invalid_request"
    ELSE IF state.stage # "Pending" THEN "invalid_request"
    ELSE "ok"

CredentialOfferKeepsState(store, id) == store

\* credential_offer purges the state it has retrieved
CredentialOfferPurge(store, id) == StorePurge(store, id)

\* credential_offer, second part: purge the state, then check and answer
credential_offer(i) ==
    /\ co[i].pc = "purge"
    /\ istore' = CredentialOfferPurge(istore, co[i].id)
    /\ co' = [co EXCEPT ![i].pc = "done",
                        ![i].res = CredentialOfferResult(co[i].state, now),
                        ![i].expired = is_expired(co[i].state, now)]
    /\ UNCHANGED <<now, inext, noffer, pending, uris, cofetch, df, remarked>>
    /\ UNCHANGED <<vvars, lvars>>
    /\ UNCHANGED <<redeemed, last_offer, nt, notified, rg>>

\* the caller has received the answer of credential_offer
credential_offer_return(i) ==
    /\ co[i].pc = "done"
    /\ co' = [co EXCEPT ![i] = IdleSlot]
    /\ cofetch' = [cofetch EXCEPT ![co[i].id] =
                       IF co[i].issued THEN "returned" ELSE @]
    /\ UNCHANGED <<now, istore, inext, noffer, pending, uris, df, remarked>>
    /\ UNCHANGED <<vvars, lvars>>
    /\ UNCHANGED <<redeemed, last_offer, nt, notified, rg>>

(***************************************************************************)
(* oid4vci: token and credential                                           *)
(***************************************************************************)
\* token, pre-authorized code grant: redeems the code for an access token
token(code, tx_code) ==
    /\ inext < MaxIKey
    /\ LET state == StoreGet(istore, code)
           access_token == inext + 1
       IN IF \/ state = NoEntry
             \/ state.stage # "Offered"
             \/ is_expired(state, now)
             \/ state.details = None
             \/ state.tx_code # tx_code
          THEN UNCHANGED <<istore, inext>>
          ELSE /\ inext' = access_token
               /\ istore' = StorePut(StorePurge(istore, code), access_token,
                                [ stage      |-> "Authorized",
                                  expires_at |-> now + ExpireAccess,
                                  subject_id |-> state.subject_id,
                                  details    |-> Unwrap(state.details) ])
    /\ UNCHANGED <<now, noffer, pending, uris, co, cofetch, df, remarked>>
    /\ UNCHANGED <<vvars, lvars>>
    /\ UNCHANGED <<redeemed, last_offer, nt, notified, rg>>

CredentialRequests ==
    [ credential_identifier : {"EmployeeID_JWT", "Other"}, proof : {"valid", "invalid"} ]

\* the outcome of the credential handler for a request made with an access
\* token: the answer, and the store, the datasets and the key counter after it
Credential(access_token, request) ==
    LET state == StoreGet(istore, access_token)
        same == [store |-> istore, pending |-> pending, next |-> inext]
    IN IF state = NoEntry \/ state.stage # "Authorized" \/ is_expired(state, now)
       THEN [res |-> "access_denied"] @@ same
       ELSE IF request.credential_identifier \notin state.details
       THEN [res |-> "invalid_credential_request"] @@ same
       ELSE IF request.proof # "valid"
       THEN [res |-> "invalid_proof"] @@ same
       ELSE LET subject_id == Unwrap(state.subject_id)
                transaction_id == inext + 1
            IN IF DatasetPending(pending, subject_id)
               THEN [ res     |-> "transaction_id",
                      pending |-> Dataset(pending, subject_id),
                      next    |-> transaction_id,
                      store   |-> StorePut(istore, transaction_id,
                                    [ stage      |-> "Deferred",
                                      expires_at |-> now + ExpireAuthorized,
                                      subject_id |-> state.subject_id,
                                      credential_request |-> request ]) ]
               ELSE [ res     |-> "credential",
                      pending |-> Dataset(pending, subject_id),
                      next    |-> inext,
                      store   |-> istore ]

credential(access_token, request) ==
    /\ inext < MaxIKey
    /\ LET out == Credential(access_token, request)
       IN /\ istore' = out.store
          /\ pending' = out.pending
          /\ inext' = out.next
    /\ UNCHANGED <<now, noffer, uris, co, cofetch, df, remarked>>
    /\ UNCHANGED <<vvars, lvars>>
    /\ UNCHANGED <<redeemed, last_offer, nt, notified, rg>>

(***************************************************************************)
(* oid4vci: deferred                                                       *)
(***************************************************************************)
\* what deferred answers for the state it read, before the credential request
DeferredStateResult(state, at) ==
    IF state = NoEntry THEN "invalid_transaction_id"
    ELSE IF is_expired(state, at) THEN "invalid_request"
    ELSE IF state.stage # "Deferred" THEN "server_error"
    ELSE "ok"

\* deferred, first part: get the state of the transaction and check it
deferred_get(i, transaction_id, authorization) ==
    /\ FirstFree(df, i)
    /\ LET state == StoreGet(istore, transaction_id)
           res == DeferredStateResult(state, now)
       IN df' = [df EXCEPT ![i] =
                    [ pc             |-> IF res = "ok" THEN "credential" ELSE "done",
                      transaction_id |-> transaction_id,
                      authorization  |-> authorization,
                      state          |-> state,
                      expired        |-> state # NoEntry /\ is_expired(state, now),
                      remarked       |-> FALSE,
                      late           |-> transaction_id \in redeemed,
                      interval       |-> None,
                      minted         |-> FALSE,
                      res            |-> res ]]
    /\ UNCHANGED <<now, istore, inext, noffer, pending, uris, co, cofetch, remarked>>
    /\ UNCHANGED <<vvars, lvars>>
    /\ UNCHANGED <<redeemed, last_offer, nt, notified, rg>>

DeferredResultNeverIssues(answer) ==
    IF answer \in {"transaction_id", "credential"} THEN "issuance_pending"
    ELSE answer

\* deferred, the answer to the repeated credential request
DeferredResult(answer) ==
    IF answer = "transaction_id" THEN "issuance_pending"
    ELSE IF answer = "credential" THEN "ok"
    ELSE answer

\* deferred, second part: make the saved credential request again
deferred_credential(i) ==
    /\ df[i].pc = "credential"
    /\ Credential(df[i].authorization, df[i].state.credential_request).next <= MaxIKey
    /\ LET out == Credential(df[i].authorization, df[i].state.credential_request)
           res == DeferredResult(out.res)
       IN /\ istore' = out.store
          /\ pending' = out.pending
          /\ inext' = out.next
          /\ df' = [df EXCEPT ![i].pc = IF res = "ok" THEN "purge" ELSE "done",
                              ![i].res = res,
                              ![i].minted = (out.res = "credential"),
                              ![i].remarked =
                                  \E s \in df[i].state.subject_id :
                                      <<s, df[i].transaction_id>> \in remarked,
                              ![i].interval = IF res = "issuance_pending"
                                              THEN Some(PendingInterval) ELSE None]
    /\ UNCHANGED <<now, noffer, uris, co, cofetch, remarked>>
    /\ UNCHANGED <<vvars, lvars>>
    /\ UNCHANGED <<redeemed, last_offer, nt, notified, rg>>

DeferredKeepsState(store, transaction_id) == store

\* deferred removes the deferred state item once the credential is issued
DeferredPurge(store, transaction_id) == StorePurge(store, transaction_id)

\* deferred, third part: purge the state of the transaction and answer
deferred(i) ==
    /\ df[i].pc = "purge"
    /\ istore' = DeferredPurge(istore, df[i].transaction_id)
    /\ df' = [df EXCEPT ![i].pc = "done"]
    /\ UNCHANGED <<now, inext, noffer, pending, uris, co, cofetch, remarked>>
    /\ UNCHANGED <<vvars, lvars>>
    /\ UNCHANGED <<redeemed, last_offer, nt, notified, rg>>

\* the future of deferred is dropped at a suspension point after the state
\* was read: while the credential request or the purge is awaited
deferred_cancel(i) ==
    /\ df[i].pc \in {"credential", "purge"}
    /\ df' = [df EXCEPT ![i].pc = "done", ![i].res = "cancelled"]
    /\ UNCHANGED <<now, istore, inext, noffer, pending, uris, co, cofetch, remarked>>
    /\ UNCHANGED <<vvars, lvars>>
    /\ UNCHANGED <<redeemed, last_offer, nt, notified, rg>>

\* the caller has received the answer of deferred
deferred_return(i) ==
    /\ df[i].pc = "done"
    /\ df' = [df EXCEPT ![i] = IdleSlot]
    /\ redeemed' = IF df[i].res = "ok" THEN redeemed \cup {df[i].transaction_id}
                                        ELSE redeemed
    /\ UNCHANGED <<now, istore, inext, noffer, pending, uris, co, cofetch, remarked>>
    /\ UNCHANGED <<vvars, lvars>>
    /\ UNCHANGED <<last_offer, nt, notified, rg>>

(***************************************************************************)
(* oid4vci: notification                                                   *)
(***************************************************************************)
Events == {"credential_accepted", "credential_deleted", "credential_failure"}

\* the headers of a notification request: absent, without an authorization
\* header, or with an access token
NotificationHeaders == {None, Some(None)} \cup {Some(Some(k)) : k \in IKeys}

\* notification, up to the verification of the access token
NotificationTokenResult(store, headers) ==
    IF headers = None THEN "invalid_request"
    ELSE IF Unwrap(headers) = None THEN "panic"
    ELSE IF StoreGet(store, Unwrap(Unwrap(headers))) = NoEntry THEN "access_denied"
    ELSE "ok"

NotificationIdResultAny(state) == "ok"

\* notification, the look-up of the notification_id
NotificationIdResult(state) ==
    IF state = NoEntry THEN "access_denied" ELSE "ok"

NotificationStoreAfterConsuming(store, notification_id) ==
    StorePurge(store, notification_id)

\* notification reads the store twice and never writes to it
NotificationStoreAfter(store, notification_id) == store

\* notification, first part: the headers and the state of the access token
notification_token(headers, notification_id, event) ==
    /\ nt.pc = "idle"
    /\ LET res == NotificationTokenResult(istore, headers)
       IN nt' = [ pc              |-> IF res = "ok" THEN "id" ELSE "done",
                  headers         |-> headers,
                  notification_id |-> notification_id,
                  event           |-> event,
                  token_found     |-> res = "ok",
                  id_found        |-> FALSE,
                  again           |-> notified = Some(<<headers, notification_id, event>>),
                  res             |-> res ]
    /\ UNCHANGED <<now, istore, inext, noffer, pending, uris, co, cofetch, df, remarked>>
    /\ UNCHANGED <<vvars, lvars>>
    /\ UNCHANGED <<redeemed, last_offer, notified, rg>>

\* notification, second part: the state of the notification_id, and the answer
notification ==
    /\ nt.pc = "id"
    /\ LET state == StoreGet(istore, nt.notification_id)
       IN /\ nt' = [nt EXCEPT !.pc = "done",
                              !.id_found = state # NoEntry,
                              !.res = NotificationIdResult(state)]
          /\ istore' = NotificationStoreAfter(istore, nt.notification_id)
    /\ UNCHANGED <<now, inext, noffer, pending, uris, co, cofetch, df, remarked>>
    /\ UNCHANGED <<vvars, lvars>>
    /\ UNCHANGED <<redeemed, last_offer, notified, rg>>

\* the caller has received the answer of notification
notification_return ==
    /\ nt.pc = "done"
    /\ nt' = IdleSlot
    /\ notified' = IF nt.res = "ok"
                   THEN Some(<<nt.headers, nt.notification_id, nt.event>>)
                   ELSE notified
    /\ UNCHANGED <<now, istore, inext, noffer, pending, uris, co, cofetch, df, remarked>>
    /\ UNCHANGED <<vvars, lvars>>
    /\ UNCHANGED <<redeemed, last_offer, rg>>

(***************************************************************************)
(* oid4vci: register                                                       *)
(***************************************************************************)
\* register::verify: the state of the access token is still accessible
RegisterVerify(store, access_token) ==
    IF StoreGet(store, access_token) = NoEntry THEN "server_error" ELSE "ok"

\* register: verify, then Provider::register of the client metadata
register(access_token, registered) ==
    /\ rg.pc = "idle"
    /\ rg' = [ pc           |-> "done",
               access_token |-> access_token,
               res          |-> IF RegisterVerify(istore, access_token) # "ok"
                                THEN RegisterVerify(istore, access_token)
                                ELSE IF ~registered THEN "server_error"
                                ELSE "ok" ]
    /\ UNCHANGED <<now, istore, inext, noffer, pending, uris, co, cofetch, df, remarked>>
    /\ UNCHANGED <<vvars, lvars>>
    /\ UNCHANGED <<redeemed, last_offer, nt, notified>>

\* the caller has received the answer of register
register_return ==
    /\ rg.pc = "done"
    /\ rg' = IdleSlot
    /\ UNCHANGED <<now, istore, inext, noffer, pending, uris, co, cofetch, df, remarked>>
    /\ UNCHANGED <<vvars, lvars>>
    /\ UNCHANGED <<redeemed, last_offer, nt, notified>>

(***************************************************************************)
(* status: bitstring                                                       *)
(***************************************************************************)
\* bits![mut 0; MAX_ENTRIES]: the length of the bit buffer, 131,072 in the
\* code and scaled down here
MaxEntries == 8
\* width of the integer type of a status value: view_bits yields every bit
\* of the integer, 64 in the code and scaled down here
ValueBits == 4
\* entries of a status log
MaxLog == 2
\* largest list_index below the end of the list
MaxIndex == 4
\* largest status value and largest status size
MaxValue == 3
MaxSize == 3

Purposes == {"revocation", "suspension", "message"}
ListConfigs == [purpose : Purposes, size : 1..MaxSize]
ListIndexes == (0..MaxIndex) \cup {MaxEntries}
Statuses ==
    [purpose : {"revocation", "message"}, list_index : ListIndexes, value : 0..MaxValue]
\* a status log entry carries the statuses of one credential
StatusLogEntries == {[status |-> <<st>>] : st \in Statuses}
StatusLogs == UNION {[1..n -> StatusLogEntries] : n \in 0..MaxLog}

RECURSIVE Pow2(_)
Pow2(n) == IF n = 0 THEN 1 ELSE 2 * Pow2(n - 1)

\* value.view_bits::<Lsb0>()[i]
ViewBit(value, i) == (value \div Pow2(i)) % 2

\* for entry in issued { for status in &entry.status { .. } }
RECURSIVE StatusesOf(_)
StatusesOf(issued) ==
    IF issued = <<>> THEN <<>> ELSE Head(issued).status \o StatusesOf(Tail(issued))

\* the bits a message status writes: one per bit of the value's integer type
MessageBits(config) == ValueBits

\* the loop of bitstring over the statuses left, the buffer being bits;
\* bits.set panics on an index outside the buffer
RECURSIVE BitstringLoop(_, _, _)
BitstringLoop(config, statuses, bits) ==
    IF statuses = <<>> THEN [kind |-> "ok", bits |-> bits]
    ELSE LET status == Head(statuses)
             position == status.list_index * config.size
         IN IF status.purpose # config.purpose
            THEN BitstringLoop(config, Tail(statuses), bits)
            ELSE IF position >= MaxEntries THEN [kind |-> "err"]
            ELSE IF config.purpose \in {"revocation", "suspension"}
            THEN BitstringLoop(config, Tail(statuses),
                     [bits EXCEPT ![position] = IF status.value # 0 THEN 1 ELSE 0])
            ELSE IF position + MessageBits(config) > MaxEntries
            THEN [kind |-> "panic"]
            ELSE BitstringLoop(config, Tail(statuses),
                     [b \in DOMAIN bits |->
                        IF b \in position..(position + MessageBits(config) - 1)
                        THEN ViewBit(status.value, b - position)
                        ELSE bits[b]])

\* the buffer bitstring compresses and encodes; gzip and base64url lose nothing
Bitstring(config, issued) ==
    BitstringLoop(config, StatusesOf(issued), [b \in 0..(MaxEntries - 1) |-> 0])

bitstring ==
    /\ sl.pc = "call"
    /\ sl' = [sl EXCEPT !.pc = "done", !.result = Bitstring(sl.config, sl.issued)]
    /\ UNCHANGED <<now, vvars, ivars, fm, pr, er>>

(***************************************************************************)
(* dif_exch: Constraints, Field and FilterValue                            *)
(***************************************************************************)
\* longest string, in characters
MaxStr == 3
\* most fields of a constraints object, most paths of a field
MaxFields == 2
MaxPaths == 2

\* strings are sequences of characters, so that serialisation is computed
Chars == {"a", "1", "\""}
Strs == UNION {[1..n -> Chars] : n \in 0..MaxStr}

\* serde_json::Value
JString(str) == [kind |-> "String", str |-> str]
JNumber(num) == [kind |-> "Number", num |-> num]
JBool(b) == [kind |-> "Bool", b |-> b]
JNull == [kind |-> "Null"]
JObject == [kind |-> "Object"]
JArray(arr) == [kind |-> "Array", arr |-> arr]

Scalars ==
    {JString(str) : str \in Strs} \cup {JNumber(1), JNumber(11)}
        \cup {JBool(TRUE), JBool(FALSE), JNull}
Elements == {JString(<<"a">>), JString(<<"1">>), JNumber(1)}
Arrays == {JArray(arr) : arr \in UNION {[1..n -> Elements] : n \in 0..2}}
Values == Scalars \cup Arrays \cup {JObject}

\* a Result<bool> or a panic
Ok(b) == [kind |-> "ok", val |-> b]
Err == [kind |-> "err"]
Panic == [kind |-> "panic"]

Digit(d) == <<"0", "1", "2", "3", "4", "5", "6", "7", "8", "9">>[d + 1]

\* Number::to_string
RECURSIVE Decimal(_)
Decimal(num) ==
    IF num < 10 THEN <<Digit(num)>> ELSE Decimal(num \div 10) \o <<Digit(num % 10)>>

\* the JSON text of a string: quoted, with quotes and backslashes escaped
RECURSIVE Escape(_)
Escape(str) ==
    IF str = <<>> THEN <<>>
    ELSE (IF Head(str) \in {"\"", "\\"} THEN <<"\\", Head(str)>> ELSE <<Head(str)>>)
             \o Escape(Tail(str))

RECURSIVE JoinTexts(_)
JoinTexts(texts) ==
    IF texts = <<>> THEN <<>>
    ELSE IF Len(texts) = 1 THEN Head(texts)
    ELSE Head(texts) \o <<",">> \o JoinTexts(Tail(texts))

\* Value::to_string, the JSON text of a value
ScalarToString(value) ==
    CASE value.kind = "String" -> <<"\"">> \o Escape(value.str) \o <<"\"">>
      [] value.kind = "Number" -> Decimal(value.num)
      [] value.kind = "Bool" -> IF value.b THEN <<"t", "r", "u", "e">>
                                           ELSE <<"f", "a", "l", "s", "e">>
      [] value.kind = "Null" -> <<"n", "u", "l", "l">>
      [] value.kind = "Object" -> <<"{", "}">>

ValueToString(value) ==
    IF value.kind = "Array"
    THEN <<"[">> \o JoinTexts([n \in DOMAIN value.arr |-> ScalarToString(value.arr[n])])
             \o <<"]">>
    ELSE ScalarToString(value)

\* match_const: the filter's const is a string, and serde_json::to_value
\* makes it Value::String
match_const(const_str, vc_node) ==
    LET const_val == JString(const_str)
    IN CASE vc_node.kind = "Array" ->
                Ok(\E n \in DOMAIN vc_node.arr : vc_node.arr[n] = const_val)
         [] vc_node.kind = "String" -> Ok(vc_node.str = ValueToString(const_val))
         [] vc_node.kind = "Number" -> Ok(Decimal(vc_node.num) = const_val.str)
         \* const_val.as_bool() is None for a string
         [] vc_node.kind = "Bool" -> Ok(FALSE)
         [] vc_node.kind = "Null" -> Ok(TRUE)
         [] vc_node.kind = "Object" -> Panic

\* the patterns: one that is no regular expression, one that matches the
\* texts holding the character a
Patterns == {<<"(">>, <<"a">>}

match_pattern(pattern, vc_node) ==
    IF pattern = <<"(">> THEN Err
    ELSE LET text == ValueToString(vc_node)
         IN Ok(\E n \in DOMAIN text : text[n] = Head(pattern))

Formats == {"date", "uuid"}

\* NaiveDate::parse_from_str(str, "%Y-%m-%d"): no string of Strs is a date
IsDate(str) == FALSE

match_format(format, vc_node) ==
    IF format = "date"
    THEN IF vc_node.kind = "String" THEN Ok(IsDate(vc_node.str)) ELSE Ok(FALSE)
    ELSE Panic

FilterValues ==
    {[kind |-> "Const", str |-> <<"a">>]}
        \cup {[kind |-> "Pattern", str |-> pattern] : pattern \in Patterns}
        \cup {[kind |-> "Format", str |-> format] : format \in Formats}

\* FilterValue::matched
FilterValueMatched(filter, vc_node) ==
    CASE filter.kind = "Const" -> match_const(filter.str, vc_node)
      [] filter.kind = "Pattern" -> match_pattern(filter.str, vc_node)
      [] filter.kind = "Format" -> match_format(filter.str, vc_node)

\* JSONPath expressions: "$[" does not parse
Paths == {"$[", "$.type", "$.id"}
ParsedPaths == {"$.type", "$.id"}
JsonPathParse(path) == path \in ParsedPaths

\* a credential as JSON: what each JSONPath query selects from it
NodeLists ==
    { <<>>, <<JString(<<"a">>)>>, <<JArray(<<JString(<<"a">>)>>)>>, <<JObject>>,
      <<JNull, JArray(<<JString(<<"a">>)>>)>> }
Credentials == [ParsedPaths -> NodeLists]
Query(vc, path) == vc[path]

PathLists == UNION {[1..n -> Paths] : n \in 0..MaxPaths}
Fields ==
    [ path     : PathLists,
      filter   : {None} \cup {Some(filter) : filter \in FilterValues},
      optional : {None, Some(TRUE), Some(FALSE)} ]

\* what the loop of Field::matched does when the filter says no: it breaks
FilterSaysNoContinues(field, vc, n) == "continue"
FilterSaysNo(field, vc, n) == "break"

\* Field::matched, from path n on
RECURSIVE MatchedFrom(_, _, _)
MatchedFrom(field, vc, n) ==
    IF n > Len(field.path) THEN Ok(FALSE)
    ELSE IF ~JsonPathParse(field.path[n]) THEN Err
    ELSE LET nodes == Query(vc, field.path[n])
         IN IF nodes = <<>> THEN MatchedFrom(field, vc, n + 1)
            ELSE IF field.filter = None THEN Ok(TRUE)
            ELSE LET res == FilterValueMatched(Unwrap(field.filter), Head(nodes))
                 IN IF res.kind # "ok" THEN res
                    ELSE IF res.val THEN Ok(TRUE)
                    ELSE IF FilterSaysNo(field, vc, n) = "break" THEN Ok(FALSE)
                    ELSE MatchedFrom(field, vc, n + 1)

FieldMatched(field, vc) == MatchedFrom(field, vc, 1)

\* Option<bool>::unwrap_or_default
UnwrapOrDefault(o) == IF o = None THEN FALSE ELSE Unwrap(o)

\* Result<bool>::unwrap_or_default; a panic is not a Result
ResultOrDefault(res) == IF res.kind = "ok" THEN res.val ELSE FALSE

\* whether an unmatched field is let through
FieldOptionalAlways(field) == TRUE
FieldOptional(field) == UnwrapOrDefault(field.optional)

\* the loop of Constraints::satisfied over the fields left
RECURSIVE SatisfiedFrom(_, _)
SatisfiedFrom(fields, vc) ==
    IF fields = <<>> THEN Ok(TRUE)
    ELSE LET res == FieldMatched(Head(fields), vc)
         IN IF res.kind = "panic" THEN Panic
            ELSE IF ~ResultOrDefault(res) /\ ~FieldOptional(Head(fields)) THEN Ok(FALSE)
            ELSE SatisfiedFrom(Tail(fields), vc)

\* Constraints::satisfied; claims.to_json() may fail
Satisfied(constraints, claims) ==
    IF constraints.fields = None THEN Ok(TRUE)
    ELSE IF claims.to_json = None THEN Err
    ELSE SatisfiedFrom(Unwrap(constraints.fields), Unwrap(claims.to_json))

\* the fields of a constraints object: one path each
ConstraintFields == {field \in Fields : Len(field.path) = 1}
FieldLists == UNION {[1..n -> ConstraintFields] : n \in 0..MaxFields}
Constraints == [fields : {None} \cup {Some(fields) : fields \in FieldLists}]
Claims == [to_json : {None} \cup {Some(vc) : vc \in Credentials}]

MatchCalls ==
    [pc : {"call"}, fn : {"match_const"}, const_str : Strs, vc_node : Values,
     result : {None}]
        \cup [pc : {"call"}, fn : {"matched"}, field : Fields, vc : Credentials,
              result : {None}]
        \cup [pc : {"call"}, fn : {"satisfied"}, constraints : Constraints,
              claims : Claims, result : {None}]

filter_const ==
    /\ fm.pc = "call" /\ fm.fn = "match_const"
    /\ fm' = [fm EXCEPT !.pc = "done", !.result = match_const(fm.const_str, fm.vc_node)]
    /\ UNCHANGED <<now, vvars, ivars, sl, pr, er>>

matched ==
    /\ fm.pc = "call" /\ fm.fn = "matched"
    /\ fm' = [fm EXCEPT !.pc = "done", !.result = FieldMatched(fm.field, fm.vc)]
    /\ UNCHANGED <<now, vvars, ivars, sl, pr, er>>

satisfied ==
    /\ fm.pc = "call" /\ fm.fn = "satisfied"
    /\ fm' = [fm EXCEPT !.pc = "done", !.result = Satisfied(fm.constraints, fm.claims)]
    /\ UNCHANGED <<now, vvars, ivars, sl, pr, er>>

(***************************************************************************)
(* sd_jwt: Disclosure and SdJwtVpBuilder                                   *)
(***************************************************************************)
\* values of the 16 random bytes of a salt
MaxSalt == 2
\* most claims of a credential that can be disclosed
MaxClaims == 2

Salts == 1..MaxSalt
ClaimNames == {"given_name", "family_name"}
ClaimValues == {"Alice", "Bob"}

\* Base64UrlUnpadded::encode_string and Sha256::digest lose nothing that is
\* compared here: they are kept as constructors
Base64Url(bytes) == [b64 |-> bytes]
Sha256(text) == [sha256 |-> text]

Disclosure(salt, name, value) == [salt |-> salt, name |-> name, value |-> value]

\* Disclosure::encoded
Encoded(disclosure) ==
    Base64Url(<<disclosure.salt, disclosure.name, disclosure.value>>)

\* Disclosure::hashed
Hashed(disclosure) == Base64Url(Sha256(Encoded(disclosure)))

\* the separator of the parts of an SD-JWT
Tilde == [sep |-> "~"]

\* disclosures.join("~")
RECURSIVE JoinTilde(_)
JoinTilde(parts) ==
    IF parts = <<>> THEN <<>>
    ELSE IF Len(parts) = 1 THEN parts
    ELSE <<Head(parts), Tilde>> \o JoinTilde(Tail(parts))

\* an SD-JWT as issued: the disclosures made at issuance, in order, and the
\* issuer-signed JWT holding their digests in _sd
IssuedDisclosures ==
    { ds \in UNION {[1..n -> [salt : Salts, name : ClaimNames, value : ClaimValues]] :
                       n \in 0..MaxClaims} :
        \A m, n \in DOMAIN ds : m # n => ds[m].name # ds[n].name }

IssuerJwt(disclosures) ==
    [ typ |-> "dc+sd-jwt",
      sd  |-> {Hashed(disclosures[n]) : n \in DOMAIN disclosures} ]

\* the claims the holder elects to reveal: some of those issued, in any order
Selections(disclosures) ==
    { sel \in UNION {[1..n -> DOMAIN disclosures] : n \in 0..Len(disclosures)} :
        \A m, n \in DOMAIN sel : m # n => sel[m] # sel[n] }

\* Queryable: the issued credential, a string unless its Kind is an object,
\* and the claims to disclose
Queryables ==
    UNION { { [ credential |-> issued_jwt,
                claims     |-> [n \in DOMAIN sel |->
                                   [ path  |-> <<ds[sel[n]].name>>,
                                     value |-> ds[sel[n]].value ]],
                issued     |-> ds ] :
              issued_jwt \in {None, Some(IssuerJwt(ds))}, sel \in Selections(ds) } :
            ds \in IssuedDisclosures }

\* SdJwtVpBuilder::build; salts are the random salts of Disclosure::new
Build(queryable, verifier, nonce, salts, at) ==
    IF queryable.credential = None THEN Err
    ELSE LET issued_jwt == Unwrap(queryable.credential)
             disclosures ==
                 [n \in DOMAIN queryable.claims |->
                     Encoded(Disclosure(salts[n],
                                 queryable.claims[n].path[Len(queryable.claims[n].path)],
                                 queryable.claims[n].value))]
             sd == <<issued_jwt, Tilde>> \o JoinTilde(disclosures)
             claims == [ nonce   |-> IF nonce = None THEN "" ELSE Unwrap(nonce),
                         aud     |-> verifier,
                         iat     |-> at,
                         sd_hash |-> Base64Url(Sha256(sd)) ]
             kb_jwt == [typ |-> "kb+jwt", payload |-> claims]
         IN [kind |-> "ok", val |-> sd \o <<Tilde, kb_jwt>>]

PresentCalls ==
    [ pc : {"call"}, queryable : Queryables, verifier : Registered,
      nonce : {None, Some("n-0S6_WzA2Mj")}, result : {None} ]

build ==
    /\ pr.pc = "call"
    /\ \E salts \in [DOMAIN pr.queryable.claims -> Salts] :
          pr' = [pr EXCEPT !.pc = "done",
                           !.result = Build(pr.queryable, pr.verifier, pr.nonce, salts, now)]
    /\ UNCHANGED <<now, vvars, ivars, sl, fm, er>>

(***************************************************************************)
(* oid4vci: Error                                                          *)
(***************************************************************************)
\* longest error description, in characters
MaxDescription == 2

\* the wire names of the variants that carry a description
DescribedErrors ==
    { "invalid_request", "invalid_client", "invalid_grant", "unauthorized_client",
      "unsupported_grant_type", "invalid_scope", "invalid_authorization_details",
      "access_denied", "unsupported_response_type", "server_error",
      "temporarily_unavailable", "invalid_credential_request",
      "unsupported_credential_type", "unsupported_credential_format",
      "invalid_proof", "invalid_nonce", "invalid_encryption_parameters",
      "credential_request_denied", "invalid_transaction_id" }

DescriptionChars == {"a", " ", "\""}
Descriptions == UNION {[1..n -> DescriptionChars] : n \in 0..MaxDescription}

\* Error: a variant with its description, or IssuancePending with its interval
Errors ==
    [error : DescribedErrors, error_description : Descriptions]
        \cup [error : {"issuance_pending"}, interval : {PendingInterval}]

\* The Display of an error is a JSON text with the description put in as it
\* is.  serde_json::from_str reads it back as an object unless the description
\* ends the string early: of DescriptionChars, the quote does.
Display(err) ==
    IF err.error = "issuance_pending" THEN Some(err)
    ELSE IF \E n \in DOMAIN err.error_description : err.error_description[n] = "\""
    THEN None
    ELSE Some(err)

\* Error::to_json: from_str(..).unwrap_or_default(), Value::Null by default
ErrorToJson(err) == IF Display(err) = None THEN JNull ELSE Unwrap(Display(err))

\* impl Serialize for Error: the text is read as an OidError, whose members
\* error and error_description are both required
Serialize(err) ==
    IF Display(err) = None THEN None
    ELSE IF "error_description" \notin DOMAIN Unwrap(Display(err)) THEN None
    ELSE Some([ error |-> err.error, error_description |-> err.error_description ])

RECURSIVE PercentEncode(_)
PercentEncode(str) ==
    IF str = <<>> THEN <<>>
    ELSE (CASE Head(str) = " " -> <<"%", "2", "0">>
            [] Head(str) = "\"" -> <<"%", "2", "2">>
            [] OTHER -> <<Head(str)>>) \o PercentEncode(Tail(str))

\* Error::to_querystring: urlencode::to_string(&self).unwrap_or_default(),
\* the pairs of the form-urlencoded string, none by default
ErrorToQuerystring(err) ==
    IF Serialize(err) = None THEN <<>>
    ELSE << <<"error", Unwrap(Serialize(err)).error>>,
            <<"error_description",
              PercentEncode(Unwrap(Serialize(err)).error_description)>> >>

ErrorCalls == [pc : {"call"}, err : Errors, json : {None}, querystring : {None}]

to_json ==
    /\ er.pc = "call"
    /\ er.json = None
    /\ er' = [er EXCEPT !.json = Some(ErrorToJson(er.err))]
    /\ UNCHANGED <<now, vvars, ivars, sl, fm, pr>>

to_querystring ==
    /\ er.pc = "call"
    /\ er.querystring = None
    /\ er' = [er EXCEPT !.querystring = Some(ErrorToQuerystring(er.err))]
    /\ UNCHANGED <<now, vvars, ivars, sl, fm, pr>>

(***************************************************************************)
(* The clock                                                               *)
(***************************************************************************)
Tick ==
    /\ now + TickLen <= MaxNow
    /\ now' = now + TickLen
    /\ UNCHANGED <<vvars, ivars, lvars>>

(***************************************************************************)
(* Specifications: the verifier, the offer by reference, deferred issuance *)
(***************************************************************************)
vars == <<now, vvars, ivars, lvars>>

\* the handlers' state after construction of the providers
InitHandlers ==
    /\ now = 0
    /\ vstore = [k \in VKeys |-> NoEntry]
    /\ vnext = 0
    /\ ro = IdleSlot
    /\ fetched = {}
    /\ rs = [i \in Slots |-> IdleSlot]
    /\ responded = {}
    /\ istore = [k \in IKeys |-> NoEntry]
    /\ inext = 0
    /\ noffer = 0
    /\ pending = [u \in Subjects |-> u = "pending_user"]
    /\ uris = [k \in IKeys |-> None]
    /\ co = [i \in Slots |-> IdleSlot]
    /\ cofetch = [k \in IKeys |-> "none"]
    /\ df = [i \in Slots |-> IdleSlot]
    /\ remarked = {}
    /\ redeemed = {}
    /\ last_offer = None
    /\ nt = IdleSlot
    /\ notified = None
    /\ rg = IdleSlot

\* no library call is in progress
Init ==
    /\ InitHandlers
    /\ sl = IdleSlot
    /\ fm = IdleSlot
    /\ pr = IdleSlot
    /\ er = IdleSlot

NextV ==
    \/ \E v \in Verifiers, f \in {"CrossDevice", "SameDevice"}, q \in Queries :
          create_request(v, f, q)
    \/ \E v \in Verifiers, id \in VKeys, signed \in BOOLEAN :
          request_object(v, id, signed)
    \/ request_object_return
    \/ \E i \in Slots, k \in {None} \cup {Some(k) : k \in VKeys} : verify(i, k)
    \/ \E i \in Slots : response(i)
    \/ \E i \in Slots : response_return(i)
    \/ Tick

SpecV == Init /\ [][NextV]_vars

\* offers made by value and by reference, and their retrieval
OfferRequests ==
    {request \in CreateOfferRequests : request.subject_id # Some("pending_user")}

NextO ==
    \/ \E request \in OfferRequests : create_offer(request)
    \/ \E i \in Slots, id \in IKeys : credential_offer_get(i, id)
    \/ \E i \in Slots : credential_offer(i)
    \/ \E i \in Slots : credential_offer_return(i)
    \/ Tick

SpecO == Init /\ [][NextO]_vars

\* pre-authorized offers made by value, redeemed up to deferred issuance
PreAuthorizedRequests ==
    { request \in CreateOfferRequests :
        /\ request.send_type = "ByVal"
        /\ request.subject_id = Some("pending_user")
        /\ request.grant_types = Some({"pre-authorized_code"})
        /\ request.credential_configuration_ids = <<"EmployeeID_JWT">>
        /\ ~request.tx_code_required }

NextD ==
    \/ \E request \in PreAuthorizedRequests : create_offer(request)
    \/ \E code \in IKeys : token(code, None)
    \/ \E access_token \in IKeys, request \in CredentialRequests :
          credential(access_token, request)
    \/ \E i \in Slots, transaction_id \in IKeys, authorization \in IKeys :
          deferred_get(i, transaction_id, authorization)
    \/ \E i \in Slots : deferred_credential(i)
    \/ \E i \in Slots : deferred(i)
    \/ \E i \in Slots : deferred_return(i)
    \/ SubjectSetPending("pending_user")
    \/ Tick

SpecD == Init /\ [][NextD]_vars

\* deferred issuance where an invocation of deferred, once it has read the
\* state, runs on to its answer (the future is polled to completion)
SpecL ==
    /\ Init
    /\ [][NextD]_vars
    /\ \A i \in Slots : /\ WF_vars(deferred_credential(i))
                        /\ WF_vars(deferred(i))
                        /\ WF_vars(deferred_return(i))

\* offers redeemed up to deferred issuance, and the endpoints that take a
\* bearer token: notification and register
BearerRequests ==
    { request \in CreateOfferRequests :
        /\ request.subject_id = Some("pending_user")
        /\ request.grant_types = Some({"pre-authorized_code"})
        /\ request.credential_configuration_ids = <<"EmployeeID_JWT">>
        /\ ~request.tx_code_required }

NextR ==
    \/ \E request \in BearerRequests : create_offer(request)
    \/ \E code \in IKeys : token(code, None)
    \/ \E access_token \in IKeys, request \in CredentialRequests :
          credential(access_token, request)
    \/ \E access_token \in IKeys, notification_id \in IKeys :
          notification_token(Some(Some(access_token)), notification_id,
                             "credential_accepted")
    \/ notification
    \/ notification_return
    \/ \E access_token \in IKeys, registered \in BOOLEAN :
          register(access_token, registered)
    \/ register_return
    \/ Tick

SpecR == Init /\ [][NextR]_vars

\* deferred issuance where the caller may drop an invocation of deferred
NextC ==
    \/ NextD
    \/ \E i \in Slots : deferred_cancel(i)

SpecC == Init /\ [][NextC]_vars

\* pre-authorized offers, redeemed for access tokens, and notifications
NotifiedRequests ==
    { request \in CreateOfferRequests :
        /\ request.subject_id \in {Some("normal_user"), Some("pending_user")}
        /\ request.grant_types = Some({"pre-authorized_code"})
        /\ request.credential_configuration_ids = <<"EmployeeID_JWT">>
        /\ ~request.tx_code_required }

NextN ==
    \/ \E request \in NotifiedRequests : create_offer(request)
    \/ \E code \in IKeys : token(code, None)
    \/ \E access_token \in IKeys, request \in CredentialRequests :
          credential(access_token, request)
    \/ \E headers \in NotificationHeaders, notification_id \in IKeys, event \in Events :
          notification_token(headers, notification_id, event)
    \/ notification
    \/ notification_return
    \/ Tick

SpecN == Init /\ [][NextN]_vars

\* the status list of a configuration, built from a status log
InitS ==
    /\ InitHandlers
    /\ sl \in [pc : {"call"}, config : ListConfigs, issued : StatusLogs, result : {None}]
    /\ fm = IdleSlot
    /\ pr = IdleSlot
    /\ er = IdleSlot

NextS == bitstring

SpecS == InitS /\ [][NextS]_vars

\* the constraints of a presentation definition, matched to a credential
InitM ==
    /\ InitHandlers
    /\ sl = IdleSlot
    /\ fm \in MatchCalls
    /\ pr = IdleSlot
    /\ er = IdleSlot

NextM ==
    \/ filter_const
    \/ matched
    \/ satisfied

SpecM == InitM /\ [][NextM]_vars

\* the presentation of a stored SD-JWT
InitP ==
    /\ InitHandlers
    /\ sl = IdleSlot
    /\ fm = IdleSlot
    /\ pr \in PresentCalls
    /\ er = IdleSlot

NextP == build

SpecP == InitP /\ [][NextP]_vars

\* the serialisations of an error
InitE ==
    /\ InitHandlers
    /\ sl = IdleSlot
    /\ fm = IdleSlot
    /\ pr = IdleSlot
    /\ er \in ErrorCalls

NextE ==
    \/ to_json
    \/ to_querystring

SpecE == InitE /\ [][NextE]_vars

(***************************************************************************)
(* Properties of the presentation handlers (under SpecV)                   *)
(***************************************************************************)
RsDone(i) == rs[i].pc = "done"
RsOk(i) == rs[i].pc = "done" /\ rs[i].res = "ok"

\* C4: whenever response was invoked with a `state` for which an entry
\* existed, the entry is absent from the store once the handler has returned,
\* whether verification succeeded or failed.
C4_StatePurgedOnExit ==
    \A i \in Slots :
        (RsDone(i) /\ rs[i].found) =>
            StoreGet(vstore, Unwrap(rs[i].state)) = NoEntry

\* C5: an invocation of response that starts after a response for the same
\* state key has succeeded fails with invalid_request.
C5_ReplayFails ==
    \A i \in Slots :
        (rs[i].pc \in {"purge", "done"} /\ rs[i].late) =>
            (rs[i].pc = "done" /\ rs[i].res = "invalid_request")

C5_Witness == \E i \in Slots : RsDone(i) /\ rs[i].late

\* C6: of the concurrent invocations of response that carry the same state
\* key, at most one completes successfully.
C6_AtMostOneResponse ==
    \A i, j \in Slots :
        (RsOk(i) /\ RsOk(j) /\ rs[i].state = rs[j].state) => i = j

CoDone(i) == co[i].pc = "done"
CoOk(i) == co[i].pc = "done" /\ co[i].res = "ok"

\* C1: for a uri token returned by create_offer, the first fetch of
\* credential_offer (made while the offer has not expired) returns the offer
\* that create_offer stored, and no fetch that starts after a fetch for the
\* token has returned succeeds.
C1_OfferFetchedOnce ==
    \A i \in Slots :
        CoDone(i) =>
            /\ co[i].late => co[i].res # "ok"
            /\ (co[i].first /\ ~co[i].expired) =>
                   /\ co[i].res = "ok"
                   /\ co[i].state.offer = Unwrap(uris[co[i].id])

\* a fetch made after the first fetch of an offer has returned
C1_Witness ==
    \E i \in Slots :
        CoDone(i) /\ co[i].late /\ co[i].res = "server_error"

\* C2: of the concurrent invocations of credential_offer on the same uri
\* token, at most one completes successfully.
C2_AtMostOneFetch ==
    \A i, j \in Slots :
        (CoOk(i) /\ CoOk(j) /\ co[i].id = co[j].id) => i = j

(***************************************************************************)
(* Properties of deferred issuance (under SpecD)                           *)
(***************************************************************************)
DfDone(i) == df[i].pc = "done"
DfOk(i) == df[i].pc = "done" /\ df[i].res = "ok"
DfRan(i) == df[i].pc \in {"purge", "done"}

\* C3: of the concurrent invocations of deferred that carry the same
\* transaction_id, at most one returns the credential.
C3_AtMostOneDeferred ==
    \A i, j \in Slots :
        (DfOk(i) /\ DfOk(j) /\ df[i].transaction_id = df[j].transaction_id) => i = j

\* C9: credential_offer and deferred answer a key whose state has expired
\* (and is still returned by the store) with the same error as a key that has
\* no state.
C9_ExpiredAsAbsent ==
    /\ \A i, j \in Slots :
          (CoDone(i) /\ CoDone(j) /\ co[i].expired /\ co[j].state = NoEntry) =>
              co[i].res = co[j].res
    /\ \A i, j \in Slots :
          (DfDone(i) /\ DfDone(j) /\ df[i].expired /\ df[j].state = NoEntry) =>
              df[i].res = df[j].res

C11_ConsumedTransactionId ==
    \A i \in Slots :
        (df[i].pc # "idle" /\ df[i].late) =>
            (df[i].pc = "done" /\ df[i].res = "invalid_transaction_id")

C11_Witness == \E i \in Slots : DfDone(i) /\ df[i].late

(***************************************************************************)
(* Properties of verify (under SpecV)                                      *)
(***************************************************************************)
RsRan(i) == rs[i].pc \in {"purge", "done"}

\* C12: a response that presents a credential whose credential_status has
\* the revocation or suspension bit set in its status list fails with
\* invalid_request (unless it has already failed with a server error).
C12_RevokedRefused ==
    \A i \in Slots :
        (RsRan(i) /\ rs[i].revoked /\ rs[i].res \notin {"server_error", "panic"}) =>
            rs[i].res = "invalid_request"

C14_FailuresAreInvalidRequest ==
    \A i \in Slots :
        (RsDone(i) /\ rs[i].res # "ok") => rs[i].res = "invalid_request"

(***************************************************************************)
(* Properties of create_offer (under SpecO)                                *)
(***************************************************************************)
\* create_offer has just answered
CreateOfferStep == noffer' # noffer
\* the offer a successful create_offer built: the one returned inline, or the
\* one persisted under the uri token it returned
OfferOf(o, store) ==
    IF o.response.offer_type.kind = "Object" THEN o.response.offer_type.offer
    ELSE store[o.response.offer_type.uri[3]].offer
GrantPopulated(offer) ==
    \E g \in offer.grants : IsSome(g.pre_authorized_code) \/ IsSome(g.authorization_code)

\* C15, as claimed: every offer of a successful create_offer, returned inline
\* or persisted as Pending, has grants.pre_authorized_code or
\* grants.authorization_code populated.
C15_SomeGrantPopulated ==
    [][ CreateOfferStep =>
          \A o \in last_offer' :
              o.response.res = "ok" => GrantPopulated(OfferOf(o, istore')) ]_vars

\* C15, amended: the offer has no grants object when grant_types is absent or
\* empty; otherwise its grants object has exactly the requested grants
\* populated, hence at least one.
C15_GrantsAsRequested ==
    [][ CreateOfferStep =>
          \A o \in last_offer' :
              o.response.res = "ok" =>
                  LET offer == OfferOf(o, istore')
                      grant_types == GrantTypes(o.request)
                  IN /\ offer.grants = None <=> grant_types = {}
                     /\ \A g \in offer.grants :
                           /\ IsSome(g.pre_authorized_code)
                                  <=> "pre-authorized_code" \in grant_types
                           /\ IsSome(g.authorization_code)
                                  <=> "authorization_code" \in grant_types
                     /\ IsSome(offer.grants) => GrantPopulated(offer) ]_vars

\* create_offer has succeeded for a request without grant types
C15_Witness ==
    \E o \in last_offer :
        /\ o.response.res = "ok"
        /\ GrantTypes(o.request) = {}
        /\ o.response.offer_type.kind = "Object"
        /\ o.response.offer_type.offer.grants = None

\* the Offered state persisted for an offer, if any
OfferedStateOf(offer, store) ==
    { store[Unwrap(g.pre_authorized_code).pre_authorized_code] :
          g \in {x \in offer.grants : IsSome(x.pre_authorized_code)} }
      \cup { store[Unwrap(g.authorization_code).issuer_state] :
          g \in {x \in offer.grants : IsSome(x.authorization_code)} }

\* C16, as claimed: whenever create_offer succeeds for a request with
\* tx_code_required, a 6-digit numeric tx_code is returned and stored in the
\* Offered state, whichever grant types were requested.
C16_TxCodeWheneverRequired ==
    [][ CreateOfferStep =>
          \A o \in last_offer' :
              (o.response.res = "ok" /\ o.request.tx_code_required) =>
                  /\ IsSome(o.response.tx_code)
                  /\ \E st \in OfferedStateOf(OfferOf(o, istore'), istore') :
                         st.stage = "Offered" /\ st.tx_code = o.response.tx_code ]_vars

\* C16, amended: a tx_code is generated exactly when tx_code_required is set
\* and the pre-authorized_code grant is requested; it then has 6 digits, is
\* returned in the response and stored in the Offered state under the
\* pre-authorized code. Otherwise the response and the Offered state (if any)
\* carry no tx_code.
C16_TxCodeForPreAuthorized ==
    [][ CreateOfferStep =>
          \A o \in last_offer' :
              o.response.res = "ok" =>
                  LET offer == OfferOf(o, istore')
                      wanted == /\ o.request.tx_code_required
                                /\ "pre-authorized_code" \in GrantTypes(o.request)
                  IN /\ IsSome(o.response.tx_code) <=> wanted
                     /\ \A code \in o.response.tx_code :
                           /\ Len(code) = TxCodeLength
                           /\ \A n \in DOMAIN code : code[n] \in 0..9
                     /\ \A st \in OfferedStateOf(offer, istore') :
                           st.stage = "Offered" /\ st.tx_code = o.response.tx_code
                     /\ wanted => OfferedStateOf(offer, istore') # {} ]_vars

\* create_offer has succeeded with a tx_code
C16_Witness ==
    \E o \in last_offer :
        /\ o.response.res = "ok"
        /\ o.request.tx_code_required
        /\ IsSome(o.response.tx_code)

PendingKeys(store) == {k \in DOMAIN store : store[k].stage = "Pending"}

\* C17: create_offer by reference returns {issuer}/credential_offer/{uri_token}
\* and persists a Pending entry with the offer under that uri_token and no
\* other; create_offer by value returns the offer inline and writes no Pending
\* entry.
C17_PendingOnlyByRef ==
    [][ CreateOfferStep =>
          \A o \in last_offer' :
              o.response.res = "ok" =>
                  IF o.request.send_type = "ByRef"
                  THEN /\ o.response.offer_type.kind = "Uri"
                       /\ \E k \in IKeys :
                             /\ o.response.offer_type.uri =
                                    <<Issuer, "credential_offer", k>>
                             /\ istore[k] = NoEntry
                             /\ istore'[k].stage = "Pending"
                             /\ istore'[k].offer = CredentialOffer(o.request, inext + 1)
                             /\ PendingKeys(istore') = PendingKeys(istore) \cup {k}
                  ELSE /\ o.response.offer_type.kind = "Object"
                       /\ o.response.offer_type.offer = CredentialOffer(o.request, inext + 1)
                       /\ PendingKeys(istore') = PendingKeys(istore)
                       /\ \A k \in PendingKeys(istore) : istore'[k] = istore[k] ]_vars

\* create_offer has returned an offer by reference
C17_Witness ==
    \E o \in last_offer :
        /\ o.response.res = "ok"
        /\ o.request.send_type = "ByRef"
        /\ \E k \in PendingKeys(istore) :
              o.response.offer_type.uri = <<Issuer, "credential_offer", k>>

\* C18: credential_offer fails with invalid_request when the entry under the
\* requested id has expired and when there is no entry under the requested id.
C18_ExpiredOrMissingInvalidRequest ==
    \A i \in Slots :
        (CoDone(i) /\ (co[i].expired \/ co[i].state = NoEntry)) =>
            co[i].res = "invalid_request"

C20_NotificationNeedsBothEntries ==
    nt.pc = "done" => (nt.res = "ok" <=> (nt.token_found /\ nt.id_found))

\* a notification has been refused for a notification_id without an entry
C20_Witness ==
    nt.pc = "done" /\ nt.token_found /\ ~nt.id_found /\ nt.res = "access_denied"

(***************************************************************************)
(* Properties of the status list (under SpecS)                             *)
(***************************************************************************)
\* the statuses of the log that belong to the list being built
ListStatuses ==
    LET all == StatusesOf(sl.issued)
    IN {all[n] : n \in {m \in DOMAIN all : all[m].purpose = sl.config.purpose}}

DistinctIndexes ==
    LET all == StatusesOf(sl.issued)
    IN \A m, n \in DOMAIN all :
          ( /\ m # n
            /\ all[m].purpose = sl.config.purpose
            /\ all[n].purpose = sl.config.purpose )
          => all[m].list_index # all[n].list_index

\* the value is one the entry's bits can hold
Fits(config, status) ==
    IF config.purpose = "message" THEN status.value < Pow2(config.size)
    ELSE status.value \in {0, 1}

\* the bit positions of an entry
BitsOf(config, status) ==
    (status.list_index * config.size)..(status.list_index * config.size + config.size - 1)

\* the value read LSB-first at the bits of an entry
RECURSIVE ReadBits(_, _, _)
ReadBits(bits, position, size) ==
    IF size = 0 THEN 0 ELSE bits[position] + 2 * ReadBits(bits, position + 1, size - 1)

\* C21: when the entries of the list's purpose have distinct list_index
\* values, lie within the list and hold values their bits can carry, the
\* buffer built by bitstring reads back, at the bits of each entry, the value
\* of that entry, whatever the order of the log.
C21_EntriesReadBack ==
    ( /\ sl.pc = "done"
      /\ sl.result.kind = "ok"
      /\ DistinctIndexes
      /\ \A status \in ListStatuses :
            /\ Fits(sl.config, status)
            /\ \A b \in BitsOf(sl.config, status) : b < MaxEntries )
    => \A status \in ListStatuses :
          ReadBits(sl.result.bits, status.list_index * sl.config.size, sl.config.size)
              = status.value

\* C22: bitstring returns an error, and neither panics nor builds a list, when
\* some bit of an entry of the list's purpose lies at or beyond the end of the
\* list.
C22_OutOfRangeIsError ==
    ( /\ sl.pc = "done"
      /\ \E status \in ListStatuses :
            \E b \in BitsOf(sl.config, status) : b >= MaxEntries )
    => sl.result.kind = "err"

(***************************************************************************)
(* Properties of the constraints matcher (under SpecM)                     *)
(***************************************************************************)
\* path n of the field parses and selects at least one node
Resolves(field, vc, n) ==
    JsonPathParse(field.path[n]) /\ Query(vc, field.path[n]) # <<>>

\* the first path that resolves, if any
FirstResolving(field, vc) ==
    {n \in DOMAIN field.path :
        Resolves(field, vc, n) /\ \A m \in 1..(n - 1) : ~Resolves(field, vc, m)}

\* the first path that resolves or does not parse, if any
FirstDeciding(field, vc) ==
    {n \in DOMAIN field.path :
        /\ Resolves(field, vc, n) \/ ~JsonPathParse(field.path[n])
        /\ \A m \in 1..(n - 1) : JsonPathParse(field.path[m]) /\ ~Resolves(field, vc, m)}

\* the first node path n selects satisfies the filter of the field, if any
NodeSatisfies(field, vc, n) ==
    \/ field.filter = None
    \/ FilterValueMatched(Unwrap(field.filter), Head(Query(vc, field.path[n]))) = Ok(TRUE)

Required(fields) == {n \in DOMAIN fields : ~UnwrapOrDefault(fields[n].optional)}

C25_ConstIsEquality ==
    (fm.pc = "done" /\ fm.fn = "match_const" /\ fm.vc_node.kind # "Object")
    => fm.result =
          Ok(IF fm.vc_node.kind = "Array"
             THEN \E n \in DOMAIN fm.vc_node.arr : fm.vc_node.arr[n] = JString(fm.const_str)
             ELSE fm.vc_node = JString(fm.const_str))

(***************************************************************************)
(* Properties of the SD-JWT presentation (under SpecP)                     *)
(***************************************************************************)
\* the parts of a presentation between its first and its last part
PresentedDisclosures(presentation) ==
    { presentation[n] : n \in { m \in 2..(Len(presentation) - 1) :
                                   presentation[m] # Tilde } }

\* the disclosures of the stored SD-JWT the holder elected, in their order
SelectedDisclosures(queryable) ==
    [ n \in DOMAIN queryable.claims |->
        LET m == CHOOSE m \in DOMAIN queryable.issued :
                    queryable.issued[m].name = queryable.claims[n].path[1]
        IN Encoded(queryable.issued[m]) ]

RECURSIVE TildeBefore(_)
TildeBefore(parts) ==
    IF parts = <<>> THEN <<>> ELSE <<Tilde, Head(parts)>> \o TildeBefore(Tail(parts))

\* C26: the digest of every disclosure of a presentation built by build is in
\* the _sd array of the issuer-signed JWT it is presented with.
C26_DisclosuresAreIssued ==
    (pr.pc = "done" /\ pr.result.kind = "ok")
    => \A encoded \in PresentedDisclosures(pr.result.val) :
          Base64Url(Sha256(encoded)) \in pr.result.val[1].sd

\* C27: build returns sd~kb_jwt, sd being the issuer-signed JWT followed by
\* the selected disclosures in their order, and the KB-JWT having typ kb+jwt,
\* sd_hash the digest of sd, aud the verifier and nonce the nonce supplied.
C27_PresentationLayout ==
    (pr.pc = "done" /\ pr.result.kind = "ok" /\ pr.nonce # None)
    => LET sd == <<Unwrap(pr.queryable.credential)>>
                    \o TildeBefore(SelectedDisclosures(pr.queryable))
       IN \E iat \in 0..MaxNow :
             pr.result.val =
                sd \o << Tilde,
                         [ typ     |-> "kb+jwt",
                           payload |-> [ nonce   |-> Unwrap(pr.nonce),
                                         aud     |-> pr.verifier,
                                         iat     |-> iat,
                                         sd_hash |-> Base64Url(Sha256(sd)) ] ] >>

(***************************************************************************)
(* Properties of the errors (under SpecE)                                  *)
(***************************************************************************)
\* C28: for every error, issuance_pending included, to_json yields an object
\* whose error member is the wire name of the variant, and to_querystring a
\* string that is not empty and carries the same error value.
C28_ErrorsSerialise ==
    /\ (er.pc = "call" /\ er.json # None)
       => LET json == Unwrap(er.json)
          IN "error" \in DOMAIN json /\ json.error = er.err.error
    /\ (er.pc = "call" /\ er.querystring # None)
       => LET querystring == Unwrap(er.querystring)
          IN /\ querystring # <<>>
             /\ \E n \in DOMAIN querystring : querystring[n] = <<"error", er.err.error>>

AuthorizeFailed(request) ==
    /\ CreateOfferVerify(request) = "ok"
    /\ "pre-authorized_code" \in GrantTypes(request)
    /\ request.subject_id # None
    /\ Unwrap(request.subject_id) \notin Subjects

\* C30: when Subject::authorize fails, create_offer answers server_error and
\* has put no entry in the state store.
C30_AuthorizeFailureSavesNothing ==
    [][ (CreateOfferStep /\ last_offer' # None /\ AuthorizeFailed(Unwrap(last_offer').request))
        => /\ Unwrap(last_offer').response.res = "server_error"
           /\ istore' = istore
           /\ uris' = uris ]_vars

C30_Witness ==
    /\ last_offer # None
    /\ AuthorizeFailed(Unwrap(last_offer).request)
    /\ Unwrap(last_offer).response.res = "server_error"
    /\ \A k \in IKeys : StoreGet(istore, k) = NoEntry

(***************************************************************************)
(* Properties of the client_id check of request_object (under SpecV)       *)
(***************************************************************************)
\* the client_id of a request object names this verifier's endpoint
BelongsTo(client_id, verifier) == client_id[1] = verifier

\* C31: request_object answers with a signed request object only when the
\* client_id of the stored request object belongs to the calling verifier;
\* when the entry is stored and its client_id belongs to another verifier the
\* answer is invalid_request and the state entry is left as it was.
C31_OnlyOwnRequestObject ==
    [][ \A verifier \in Verifiers, id \in VKeys, signed \in BOOLEAN :
          request_object(verifier, id, signed)
          => LET state == StoreGet(vstore, id)
             IN /\ ro'.res = "ok"
                   => /\ state # NoEntry
                      /\ BelongsTo(state.request_object.client_id, verifier)
                      /\ ro'.jws # None
                /\ (state # NoEntry
                      /\ ~BelongsTo(state.request_object.client_id, verifier))
                   => /\ ro'.res = "invalid_request"
                      /\ ro'.jws = None
                      /\ StoreGet(vstore', id) = state
                      /\ vstore' = vstore ]_vars

\* request_object has refused a stored request object and the entry is
\* still in the store
C31_Witness ==
    /\ ro.pc = "done" /\ ro.res = "invalid_request"
    /\ StoreGet(vstore, ro.id) # NoEntry
    /\ \E verifier \in Verifiers :
          ~BelongsTo(StoreGet(vstore, ro.id).request_object.client_id, verifier)

(***************************************************************************)
(* Properties of polling deferred (under SpecL)                            *)
(***************************************************************************)
\* the entry of a transaction_id is in the store, in stage Deferred
DeferredEntry(transaction_id) ==
    /\ StoreGet(istore, transaction_id) # NoEntry
    /\ StoreGet(istore, transaction_id).stage = "Deferred"

\* the access token is accepted for the credential request saved under the
\* transaction_id
TokenAccepted(authorization, transaction_id) ==
    Credential(authorization, StoreGet(istore, transaction_id).credential_request).res
        \in {"credential", "transaction_id"}

\* some invocation of deferred has the credential as its answer
DeferredIssued(transaction_id) ==
    \E i \in Slots : /\ df[i].pc = "done"
                     /\ df[i].transaction_id = transaction_id
                     /\ df[i].res = "ok"

\* the wallet polls deferred with the transaction_id, whose entry has not
\* expired, and with an access token accepted for the saved request
PollInTime(transaction_id) ==
    /\ DeferredEntry(transaction_id)
    /\ ~is_expired(StoreGet(istore, transaction_id), now)
    /\ \E i \in Slots, authorization \in IKeys :
          /\ TokenAccepted(authorization, transaction_id)
          /\ deferred_get(i, transaction_id, authorization)

C33_OnlyPendingRemoved ==
    [][ \A i \in Slots :
          ( /\ credential_offer(i)
            /\ co[i].state.stage \in {"Offered", "Authorized", "Deferred"}
            /\ StoreGet(istore, co[i].id) = co[i].state )
          => /\ co'[i].res # "ok"
             /\ StoreGet(istore', co[i].id) = co[i].state ]_vars

(***************************************************************************)
(* Properties of a failing create_offer (under SpecO)                      *)
(***************************************************************************)
\* create_offer has just answered with an error
CreateOfferFailed ==
    /\ CreateOfferStep
    /\ last_offer' # None
    /\ Unwrap(last_offer').response.res # "ok"

\* the store after the step has one entry more than before, in stage Offered
OnlyOfferedAdded ==
    \E k \in IKeys :
        /\ StoreGet(istore, k) = NoEntry
        /\ StoreGet(istore', k) # NoEntry
        /\ StoreGet(istore', k).stage = "Offered"
        /\ \A j \in IKeys \ {k} : StoreGet(istore', j) = StoreGet(istore, j)

\* C34, as claimed: whenever create_offer returns an error, at validation, at
\* Subject::authorize or at either StateStore::put, the state store holds no
\* entry written by that invocation.
C34_AllOrNothing ==
    [][ CreateOfferFailed => istore' = istore ]_vars

\* C34, amended: a create_offer that returns an error has written nothing,
\* except when the offer is sent by reference and the put of the Pending
\* entry fails after the put of the Offered entry: then the Offered entry,
\* and nothing else, stays in the store; no offer URI is handed out.
C34_NothingButOfferedRemains ==
    [][ CreateOfferFailed
        => /\ uris' = uris
           /\ \/ istore' = istore
              \/ /\ Unwrap(last_offer').request.send_type = "ByRef"
                 /\ GrantTypes(Unwrap(last_offer').request) # {}
                 /\ CreateOfferVerify(Unwrap(last_offer').request) = "ok"
                 /\ ~AuthorizeFailed(Unwrap(last_offer').request)
                 /\ OnlyOfferedAdded ]_vars

\* create_offer by reference has answered with an error and its Offered entry
\* is in the store
C34_Witness ==
    /\ last_offer # None
    /\ Unwrap(last_offer).response.res = "server_error"
    /\ Unwrap(last_offer).request.send_type = "ByRef"
    /\ ~AuthorizeFailed(Unwrap(last_offer).request)
    /\ \E k \in IKeys : StoreGet(istore, k).stage = "Offered"

(***************************************************************************)
(* Properties of deferred with cancellation (under SpecC)                  *)
(***************************************************************************)
\* the invocation in slot i, returned or cancelled, has had the credential
\* minted for the transaction_id
Minted(i, transaction_id) ==
    /\ df[i].pc \in {"purge", "done"}
    /\ df[i].transaction_id = transaction_id
    /\ df[i].minted

\* C35: for every transaction_id, over all invocations of deferred, those
\* cancelled at a suspension point included, the credential is minted at most
\* once.
C35_MintedAtMostOnce ==
    \A transaction_id \in IKeys :
        Cardinality({i \in Slots : Minted(i, transaction_id)}) <= 1

(***************************************************************************)
(* Properties of the verifier handlers on expired state (under SpecV)      *)
(***************************************************************************)
\* the state store returns an entry for the key although its expires_at has
\* passed
ReturnedExpired(key) ==
    /\ StoreGet(vstore, key) # NoEntry
    /\ StoreGet(vstore, key).expires_at < now

\* C36: request_object and response fail for a state entry whose expires_at
\* has passed, even when the state store still returns the entry.
C36_ExpiredStateRefused ==
    [][ /\ (ro.pc = "idle" /\ ro'.pc = "done" /\ ReturnedExpired(ro'.id))
           => ro'.res # "ok"
        /\ \A i \in Slots :
              ( /\ rs[i].pc = "idle" /\ rs'[i].pc # "idle"
                /\ \E key \in rs'[i].state : ReturnedExpired(key) )
              => rs'[i].res # "ok" ]_vars

(***************************************************************************)
(* Properties of verify on the credential and the audience (under SpecV)   *)
(***************************************************************************)
\* C37: response completes successfully only if the credential matched to
\* the input descriptor is within its validity window at verification time:
\* valid_from <= now <= valid_until.
C37_WithinValidityWindow ==
    \A i \in Slots :
        (RsRan(i) /\ rs[i].res = "ok") => ~rs[i].early

\* C38: response completes successfully only if the audience of every
\* presentation equals the client_id of the request object stored under the
\* `state` key of the response.
C38_AudienceIsClientId ==
    \A i \in Slots :
        (RsRan(i) /\ rs[i].res = "ok") => rs[i].audience

\* C39: response completes successfully only if the issuer signature of the
\* credential located through the descriptor map verifies, whether the
\* credential is a compact JWT string or a JSON object.
C39_IssuerSignatureVerified ==
    \A i \in Slots :
        (RsRan(i) /\ rs[i].res = "ok") => ~rs[i].forged

(***************************************************************************)
(* Properties of the bearer token of notification and register (SpecR)     *)
(***************************************************************************)
\* the key is in the store with an entry that is not in stage Authorized: a
\* pre_authorized_code (Offered), an offer URI token (Pending) or a
\* transaction_id (Deferred)
OtherStage(key) ==
    /\ StoreGet(istore, key) # NoEntry
    /\ StoreGet(istore, key).stage \in {"Offered", "Pending", "Deferred"}

\* C40: notification and register accept as access token only a key whose
\* state entry is in stage Authorized; a pre_authorized_code, an offer URI
\* token or a transaction_id presented as the bearer token is rejected.
C40_BearerIsAuthorized ==
    [][ /\ ( /\ nt.pc = "idle" /\ nt'.pc # "idle"
             /\ \E header \in nt'.headers : \E key \in header : OtherStage(key) )
           => ~nt'.token_found
        /\ (rg.pc = "idle" /\ rg'.pc = "done" /\ OtherStage(rg'.access_token))
           => rg'.res # "ok" ]_vars

====
